---- MODULE Spec2Model ----
(***************************************************************************)
(* LazyRc<T> (src/src/lib.rs): a handle that owns a boxed value like a Box *)
(* until it is cloned, and from the first clone on shares it through a     *)
(* lazily allocated counter cell.                                          *)
(*                                                                         *)
(* The model keeps the two heaps (data allocations and counter cells), the *)
(* fields of every handle, and a record of what the most recent operation  *)
(* did (which cells it read, wrote, allocated and freed).                  *)
(***************************************************************************)
EXTENDS Integers, FiniteSets, Sequences

\* ---- bounds of the model ----
MaxHandles == 4
MaxFamilies == 2
MaxValue == 1
NumThreads == 2
\* width of the counter (usize), scaled down; more handles than MaxHandles
\* never exist at once, as every handle that exists occupies memory
CounterBits == 3

Handle == 1..MaxHandles
DataAddr == 1..MaxFamilies
CounterAddr == 1..MaxHandles
Values == 0..MaxValue
Thread == 1..NumThreads
CounterModulus == 2 ^ CounterBits
\* the leaks it takes to push a counter past its width
MaxLeaks == CounterModulus - MaxHandles

\* std::ptr::null()
NULL == 0

VARIABLES
    status,       \* per handle: "unused" (not yet constructed), "live", "dropped"
    data,         \* LazyRc::data of every handle
    share_count,  \* LazyRc::share_count of every handle (NULL when unshared)
    family,       \* ghost: the construction a handle descends from
    dataHeap,     \* the Box<T> allocations
    counterHeap,  \* the Box<Cell<usize>> allocations
    last,         \* ghost: what the most recent operation did
    eager,        \* reference: an eagerly counted owner run on the same operations
    thread,       \* per execution context: the clone or drop it is in the middle of
    lostUpdate,   \* ghost: some context acted on a counter value that was stale
    leaked        \* ghost: how many handles have been leaked so far

vars == <<status, data, share_count, family, dataHeap, counterHeap, last,
          eager, thread, lostUpdate, leaked>>

\* the state new, clone, drop and deref never touch
sideVars == <<thread, lostUpdate, leaked>>

NoOp ==
    [op |-> "none", h |-> 0, new |-> 0, val |-> 0, count |-> 0,
     ctrReads |-> {}, ctrWrites |-> {}, ctrAllocs |-> {}, freed |-> <<>>]

Idle == [pc |-> "idle", h |-> 0, count |-> 0]

Live == {h \in Handle : status[h] = "live"}
Unused == {h \in Handle : status[h] = "unused"}
Min(S) == CHOOSE x \in S : \A y \in S : x <= y

\* members of a family, whatever their status
Members(f) == {h \in Handle : status[h] # "unused" /\ family[h] = f}
LiveMembers(f) == {h \in Live : family[h] = f}

FreshData == {d \in DataAddr : dataHeap[d].state = "unalloc"}
FreshCounter == {c \in CounterAddr : counterHeap[c].state = "unalloc"}

Init ==
    /\ status = [h \in Handle |-> "unused"]
    /\ data = [h \in Handle |-> NULL]
    /\ share_count = [h \in Handle |-> NULL]
    /\ family = [h \in Handle |-> 0]
    /\ dataHeap = [d \in DataAddr |-> [state |-> "unalloc", val |-> 0, frees |-> 0]]
    /\ counterHeap = [c \in CounterAddr |->
                         [state |-> "unalloc", val |-> 0, frees |-> 0, owner |-> 0]]
    /\ last = NoOp
    /\ eager = [d \in DataAddr |-> [count |-> 0, frees |-> 0]]
    /\ thread = [t \in Thread |-> Idle]
    /\ lostUpdate = FALSE
    /\ leaked = 0

\* ---- reads through raw pointers ----
\* The value a read of the counter cell yields; a read of a freed cell is
\* undefined behaviour and may yield anything.
CounterRead(c) ==
    IF counterHeap[c].state = "alloc" THEN {counterHeap[c].val} ELSE 0..MaxHandles

\* variant: deref goes through the pointer of another handle
DerefFirst(h) == data[1]
\* Deref::deref: the place the handle dereferences to
Deref(h) == data[h]

\* the value read through the handle; reading freed data is undefined behaviour
ReadValues(h) ==
    IF dataHeap[Deref(h)].state = "alloc" THEN {dataHeap[Deref(h)].val} ELSE Values

\* Box::from_raw(p) dropped: runs the destructor and releases the allocation
Free(heap, p) == [heap EXCEPT ![p].state = "freed", ![p].frees = @ + 1]

\* ---- the eager reference-counted owner the lazy one is compared with ----
\* its counter exists from construction on with the value 1, clone adds 1,
\* drop takes 1 off and frees data when the counter reaches 0
EagerNew(d) == [eager EXCEPT ![d] = [count |-> 1, frees |-> 0]]
EagerClone(f) == [eager EXCEPT ![f].count = (@ + 1) % CounterModulus]
EagerDrop(f) ==
    [eager EXCEPT ![f].count = @ - 1,
                  ![f].frees = IF eager[f].count = 1 THEN @ + 1 ELSE @]

\* ---- LazyRc::new ----
NewShareCount == NULL

\* variant: the counter is allocated eagerly at construction, as Rc does
NewEager(v) ==
    /\ Unused # {}
    /\ FreshData # {}
    /\ FreshCounter # {}
    /\ LET h == Min(Unused)
           d == Min(FreshData)
           c == Min(FreshCounter)
       IN /\ dataHeap' = [dataHeap EXCEPT ![d] = [state |-> "alloc", val |-> v, frees |-> 0]]
          /\ counterHeap' = [counterHeap EXCEPT ![c] =
                 [state |-> "alloc", val |-> 1, frees |-> 0, owner |-> d]]
          /\ status' = [status EXCEPT ![h] = "live"]
          /\ data' = [data EXCEPT ![h] = d]
          /\ share_count' = [share_count EXCEPT ![h] = c]
          /\ family' = [family EXCEPT ![h] = d]
          /\ last' = [NoOp EXCEPT !.op = "new", !.h = h, !.new = h, !.val = v,
                                  !.ctrAllocs = {c}, !.ctrWrites = {c}]
          /\ eager' = EagerNew(d)
    /\ UNCHANGED sideVars

New(v) ==
    /\ Unused # {}
    /\ FreshData # {}
    /\ LET h == Min(Unused)
           d == Min(FreshData)
       IN /\ dataHeap' = [dataHeap EXCEPT ![d] = [state |-> "alloc", val |-> v, frees |-> 0]]
          /\ status' = [status EXCEPT ![h] = "live"]
          /\ data' = [data EXCEPT ![h] = d]
          /\ share_count' = [share_count EXCEPT ![h] = NewShareCount]
          /\ family' = [family EXCEPT ![h] = d]
          /\ last' = [NoOp EXCEPT !.op = "new", !.h = h, !.new = h, !.val = v]
          /\ eager' = EagerNew(d)
    /\ UNCHANGED <<counterHeap, sideVars>>

\* ---- Clone::clone ----
\* variant: the new cell counts only the original
InitialCountOne == 2 - 1
InitialCount == 2
\* variant: a later clone forgets to count itself
IncrementNone(count) == count
\* counter.get() + 1 on a usize without overflow checks
Increment(count) == (count + 1) % CounterModulus

\* the fields of the handle clone returns; sc is the share_count of every
\* handle once the branch above has run
\* variant: the data pointer is taken from another handle
CloneDataWrong(h) == data[1]
CloneData(h) == data[h]
\* variant: the pointer copied is the one read before the branch ran
CloneShareCountStale(sc, h) == share_count[h]
CloneShareCount(sc, h) == sc[h]

\* share_count.get().as_ref() is Some: the handle already has a counter
\* (variant: the existing counter is never found)
NeverShared(counter) == FALSE
IsShared(counter) == counter # NULL

\* share_count is Some(counter) and the counter read count: store count + 1
CloneShared(h, n, counter, count) ==
    /\ counterHeap' = [counterHeap EXCEPT ![counter].val = Increment(count)]
    /\ share_count' = [share_count EXCEPT ![n] = CloneShareCount(share_count, h)]
    /\ last' = [NoOp EXCEPT !.op = "clone", !.h = h, !.new = n, !.count = count,
                            !.ctrReads = {counter}, !.ctrWrites = {counter}]

\* share_count is null: allocate the counter and store it in self
CloneUnshared(h, n) ==
    /\ FreshCounter # {}
    /\ LET c == Min(FreshCounter)
       IN /\ counterHeap' = [counterHeap EXCEPT ![c] =
                 [state |-> "alloc", val |-> InitialCount, frees |-> 0,
                  owner |-> family[h]]]
          /\ LET set == [share_count EXCEPT ![h] = c]
             IN share_count' = [set EXCEPT ![n] = CloneShareCount(set, h)]
          /\ last' = [NoOp EXCEPT !.op = "clone", !.h = h, !.new = n,
                                  !.ctrAllocs = {c}, !.ctrWrites = {c}]

\* the handle clone returns
CloneHandle(h, n) ==
    /\ status' = [status EXCEPT ![n] = "live"]
    /\ data' = [data EXCEPT ![n] = CloneData(h)]
    /\ family' = [family EXCEPT ![n] = family[h]]
    /\ eager' = EagerClone(family[h])
    /\ UNCHANGED dataHeap

Clone(h) ==
    /\ h \in Live
    /\ Unused # {}
    /\ LET n == Min(Unused)
           counter == share_count[h]
       IN /\ IF IsShared(counter)
             THEN \E count \in CounterRead(counter) : CloneShared(h, n, counter, count)
             ELSE CloneUnshared(h, n)
          /\ CloneHandle(h, n)
    /\ UNCHANGED sideVars

\* ---- Drop::drop ----
\* variants of the test that decides whether this handle is the last one
NoEarlyReturn(count) == FALSE
MoreThanTwo(count) == count > 2
AtLeastOne(count) == count >= 1
MoreThanOne(count) == count > 1
\* variant: the decremented value is never stored
DecrementTwo(count) == count - 2
DecrementNone(count) == count
Decrement(count) == count - 1

\* variant: data is only freed inside the shared branch
DropUnsharedLeak(h) ==
    /\ last' = [NoOp EXCEPT !.op = "drop", !.h = h]
    /\ UNCHANGED <<dataHeap, counterHeap>>

\* share_count is null: free data
DropUnshared(h) ==
    /\ dataHeap' = Free(dataHeap, data[h])
    /\ last' = [NoOp EXCEPT !.op = "drop", !.h = h,
                            !.freed = <<<<"data", data[h]>>>>]
    /\ UNCHANGED counterHeap

\* count > 1: write count - 1 and return
DropDecrement(h, counter, count) ==
    /\ counterHeap' = [counterHeap EXCEPT ![counter].val = Decrement(count)]
    /\ last' = [NoOp EXCEPT !.op = "drop", !.h = h, !.count = count,
                            !.ctrReads = {counter}, !.ctrWrites = {counter}]
    /\ UNCHANGED dataHeap

\* variant: data is freed before the counter
DropLastDataFirst(h, counter, count) ==
    /\ counterHeap' = Free(counterHeap, counter)
    /\ dataHeap' = Free(dataHeap, data[h])
    /\ last' = [NoOp EXCEPT !.op = "drop", !.h = h, !.count = count,
                            !.ctrReads = {counter},
                            !.freed = <<<<"data", data[h]>>, <<"counter", counter>>>>]

\* otherwise: free the counter, then data
DropLast(h, counter, count) ==
    /\ counterHeap' = Free(counterHeap, counter)
    /\ dataHeap' = Free(dataHeap, data[h])
    /\ last' = [NoOp EXCEPT !.op = "drop", !.h = h, !.count = count,
                            !.ctrReads = {counter},
                            !.freed = <<<<"counter", counter>>, <<"data", data[h]>>>>]

Drop(h) ==
    /\ h \in Live
    /\ LET counter == share_count[h]
       IN IF counter # NULL
          THEN \E count \in CounterRead(counter) :
                  IF MoreThanOne(count)
                  THEN DropDecrement(h, counter, count)
                  ELSE DropLast(h, counter, count)
          ELSE DropUnshared(h)
    /\ status' = [status EXCEPT ![h] = "dropped"]
    /\ eager' = EagerDrop(family[h])
    /\ UNCHANGED <<data, share_count, family, sideVars>>

\* ---- use of the wrapped value through the handle (test_owned) ----
\* thing.0.get()
Read(h) ==
    /\ h \in Live
    /\ \E v \in ReadValues(h) :
          last' = [NoOp EXCEPT !.op = "read", !.h = h, !.val = v]
    /\ UNCHANGED <<status, data, share_count, family, dataHeap, counterHeap,
                   eager, sideVars>>

\* thing.0.set(v)
Write(h, v) ==
    /\ h \in Live
    /\ dataHeap' = [dataHeap EXCEPT ![Deref(h)].val = v]
    /\ last' = [NoOp EXCEPT !.op = "write", !.h = h, !.val = v]
    /\ UNCHANGED <<status, data, share_count, family, counterHeap, eager, sideVars>>

\* ---- leaked handles and the counter's width ----
\* std::mem::forget(handle): the handle ceases to exist and drop never runs
\* for it; its slot can hold another handle afterwards
Forget(h) ==
    /\ h \in Live
    /\ leaked < MaxLeaks
    /\ leaked' = leaked + 1
    /\ status' = [status EXCEPT ![h] = "unused"]
    /\ last' = [NoOp EXCEPT !.op = "forget", !.h = h]
    /\ UNCHANGED <<data, share_count, family, dataHeap, counterHeap, eager,
                   thread, lostUpdate>>

\* a build with overflow checks panics in counter.get() + 1 instead of
\* storing the wrapped value, and no handle is returned
ClonePanic(h) ==
    /\ h \in Live
    /\ IsShared(share_count[h])
    /\ \E count \in CounterRead(share_count[h]) :
          /\ count + 1 >= CounterModulus
          /\ last' = [NoOp EXCEPT !.op = "clone_panic", !.h = h, !.count = count,
                                  !.ctrReads = {share_count[h]}]
    /\ UNCHANGED <<status, data, share_count, family, dataHeap, counterHeap,
                   eager, sideVars>>

Next ==
    \/ \E v \in Values : New(v)
    \/ \E h \in Handle : Clone(h)
    \/ \E h \in Handle : Drop(h)
    \/ \E h \in Handle : Read(h)
    \/ \E h \in Handle, v \in Values : Write(h, v)

Spec == Init /\ [][Next]_vars

\* ---- two execution contexts ----
\* The counter update is a read (counter.get()) followed later by a write
\* (counter.set(..)) with nothing in between to keep other contexts out: a
\* context reads in its Begin step and writes in its End step. A handle is
\* used by one context at a time; the contexts meet in the shared counter.
InUse(h) == \E t \in Thread : thread[t].pc # "idle" /\ thread[t].h = h
Cloning == {t \in Thread : thread[t].pc = "clone"}

\* the counter no longer holds what the context read from it
Stale(counter, count) ==
    counterHeap[counter].state # "alloc" \/ counterHeap[counter].val # count

\* construction; a handle slot is kept free for every clone under way
RaceNew(v) ==
    /\ Cardinality(Unused) > Cardinality(Cloning)
    /\ New(v)

\* clone of an unshared handle: no counter exists yet for anyone to share
RaceCloneUnshared(h) ==
    /\ ~ InUse(h)
    /\ ~ IsShared(share_count[h])
    /\ Cardinality(Unused) > Cardinality(Cloning)
    /\ Clone(h)

\* clone of a shared handle, up to counter.get()
CloneBegin(t, h) ==
    /\ thread[t].pc = "idle"
    /\ h \in Live
    /\ ~ InUse(h)
    /\ IsShared(share_count[h])
    /\ Cardinality(Unused) > Cardinality(Cloning)
    /\ \E count \in CounterRead(share_count[h]) :
          thread' = [thread EXCEPT ![t] = [pc |-> "clone", h |-> h, count |-> count]]
    /\ UNCHANGED <<status, data, share_count, family, dataHeap, counterHeap, last,
                   eager, lostUpdate, leaked>>

\* counter.set(count + 1) and the construction of the new handle
CloneEnd(t) ==
    /\ thread[t].pc = "clone"
    /\ LET h == thread[t].h
           count == thread[t].count
       IN /\ CloneShared(h, Min(Unused), share_count[h], count)
          /\ CloneHandle(h, Min(Unused))
          /\ lostUpdate' = (lostUpdate \/ Stale(share_count[h], count))
    /\ thread' = [thread EXCEPT ![t] = Idle]
    /\ UNCHANGED leaked

\* drop of an unshared handle
RaceDropUnshared(h) ==
    /\ ~ InUse(h)
    /\ share_count[h] = NULL
    /\ Drop(h)

\* drop of a shared handle, up to counter_ref.get()
DropBegin(t, h) ==
    /\ thread[t].pc = "idle"
    /\ h \in Live
    /\ ~ InUse(h)
    /\ share_count[h] # NULL
    /\ \E count \in CounterRead(share_count[h]) :
          thread' = [thread EXCEPT ![t] = [pc |-> "drop", h |-> h, count |-> count]]
    /\ UNCHANGED <<status, data, share_count, family, dataHeap, counterHeap, last,
                   eager, lostUpdate, leaked>>

\* the test of count and what follows it
DropEnd(t) ==
    /\ thread[t].pc = "drop"
    /\ LET h == thread[t].h
           count == thread[t].count
       IN /\ IF MoreThanOne(count)
             THEN DropDecrement(h, share_count[h], count)
             ELSE DropLast(h, share_count[h], count)
          /\ status' = [status EXCEPT ![h] = "dropped"]
          /\ eager' = EagerDrop(family[h])
          /\ lostUpdate' = (lostUpdate \/ Stale(share_count[h], count))
    /\ thread' = [thread EXCEPT ![t] = Idle]
    /\ UNCHANGED <<data, share_count, family, leaked>>

NextRace ==
    \/ \E v \in Values : RaceNew(v)
    \/ \E h \in Handle : RaceCloneUnshared(h)
    \/ \E t \in Thread, h \in Handle : CloneBegin(t, h)
    \/ \E t \in Thread : CloneEnd(t)
    \/ \E h \in Handle : RaceDropUnshared(h)
    \/ \E t \in Thread, h \in Handle : DropBegin(t, h)
    \/ \E t \in Thread : DropEnd(t)

SpecRace == Init /\ [][NextRace]_vars

\* the same operations when handles may also be leaked
NextWrap ==
    \/ \E v \in Values : New(v)
    \/ \E h \in Handle : Clone(h)
    \/ \E h \in Handle : ClonePanic(h)
    \/ \E h \in Handle : Drop(h)
    \/ \E h \in Handle : Forget(h)

SpecWrap == Init /\ [][NextWrap]_vars

TypeOK ==
    /\ status \in [Handle -> {"unused", "live", "dropped"}]
    /\ data \in [Handle -> DataAddr \cup {NULL}]
    /\ share_count \in [Handle -> CounterAddr \cup {NULL}]
    /\ family \in [Handle -> 0..MaxFamilies]
    /\ \A d \in DataAddr : dataHeap[d].state \in {"unalloc", "alloc", "freed"}
    /\ \A c \in CounterAddr : counterHeap[c].state \in {"unalloc", "alloc", "freed"}

\* ---- properties ----
\* A family is named by the allocation its construction wrapped (New sets
\* family[h] to it and Clone hands it on), so FamilyIds are the families.
FamilyIds == {f \in DataAddr : Members(f) # {}}
CountersOf(f) ==
    {c \in CounterAddr : counterHeap[c].state # "unalloc" /\ counterHeap[c].owner = f}

\* C1: the data allocation of a family is freed at most once, and exactly
\* once by the time every handle of the family has been dropped, whatever
\* the order of the drops.
ExactlyOnceFinalization ==
    \A f \in FamilyIds :
        /\ dataHeap[f].frees <= 1
        /\ LiveMembers(f) = {} => dataHeap[f].frees = 1

\* a family of three or more handles, all dropped, the original not last
ExactlyOnceFinalizationWitness ==
    \E f \in FamilyIds :
        /\ Cardinality(Members(f)) >= 3
        /\ LiveMembers(f) = {}
        /\ last.op = "drop" /\ family[last.h] = f /\ last.h # Min(Members(f))
        /\ dataHeap[f].frees = 1

\* C2: while a handle of a family is live the data it points to is
\* allocated, and a drop that leaves a live member behind frees nothing.
NoUseAfterFree ==
    /\ \A h \in Live : dataHeap[data[h]].state = "alloc"
    /\ \A f \in FamilyIds : LiveMembers(f) # {} => dataHeap[f].frees = 0
    /\ (last.op = "drop" /\ LiveMembers(family[last.h]) # {}) => last.freed = <<>>

\* a drop of a member that was not the last one
NoUseAfterFreeWitness ==
    /\ last.op = "drop"
    /\ LiveMembers(family[last.h]) # {}
    /\ Cardinality(Members(family[last.h]) \ Live) >= 2

\* C3: the counter a live handle points to holds the number of live handles
\* of its family (K+1-J after K clones and J drops).
CounterCorrect ==
    \A h \in Live :
        (share_count[h] # NULL /\ counterHeap[share_count[h]].state = "alloc")
            => counterHeap[share_count[h]].val = Cardinality(LiveMembers(family[h]))

\* K = 3 clones and J = 2 drops: the counter holds 2
CounterCorrectWitness ==
    \E h \in Live :
        /\ share_count[h] # NULL
        /\ Cardinality(Members(family[h])) = 4
        /\ Cardinality(LiveMembers(family[h])) = 2
        /\ counterHeap[share_count[h]].val = 2

\* C4: new yields an unshared handle and allocates no counter; a handle
\* that is never cloned has no counter, up to and including its drop.
NoAllocationUntilShared ==
    /\ last.op = "new" => (share_count[last.new] = NULL /\ last.ctrAllocs = {})
    /\ \A h \in Handle :
          (status[h] # "unused" /\ Members(family[h]) = {h})
              => (share_count[h] = NULL /\ CountersOf(family[h]) = {})

\* a handle dropped without ever having been cloned, next to a shared family
NoAllocationUntilSharedWitness ==
    \E h \in Handle :
        /\ status[h] = "dropped"
        /\ Members(family[h]) = {h}
        /\ \E c \in CounterAddr : counterHeap[c].state = "alloc"

\* C5: after clone the cloned handle and the new one are shared and hold the
\* same data pointer and the same counter pointer; so do all live handles of
\* a family that has been cloned.
CloneShares ==
    /\ last.op = "clone" =>
          /\ share_count[last.h] # NULL
          /\ share_count[last.new] = share_count[last.h]
          /\ data[last.new] = data[last.h]
    /\ \A h, g \in Live :
          (family[h] = family[g] /\ Cardinality(Members(family[h])) >= 2)
              => /\ data[h] = data[g]
                 /\ share_count[h] = share_count[g]
                 /\ share_count[h] # NULL

\* a clone of a clone, in a family of three live handles
CloneSharesWitness ==
    /\ last.op = "clone"
    /\ last.h # Min(Members(family[last.h]))
    /\ Cardinality(LiveMembers(family[last.h])) >= 3

\* C6: all live handles of a family dereference to the same value, and a
\* value written through one handle is what every live handle of the family
\* reads back.
SharedIdentity ==
    /\ \A h, g \in Live :
          family[h] = family[g]
              => (Deref(h) = Deref(g) /\ ReadValues(h) = ReadValues(g))
    /\ last.op = "write" =>
          \A g \in LiveMembers(family[last.h]) : ReadValues(g) = {last.val}

\* a write through a clone of a clone, seen by three live handles, while
\* the other family holds a different value
SharedIdentityWitness ==
    /\ last.op = "write"
    /\ last.h # Min(Members(family[last.h]))
    /\ Cardinality(LiveMembers(family[last.h])) >= 3
    /\ \E g \in Live : ReadValues(g) # {last.val}

\* C7: a family gets at most one counter allocation; the first clone
\* allocates it with the value 2 and stores it in the cloned handle, and
\* every later clone adds exactly 1 to it and allocates nothing.
CounterCreatedOnce ==
    /\ \A f \in FamilyIds : Cardinality(CountersOf(f)) <= 1
    /\ last.op = "clone" =>
          IF Cardinality(Members(family[last.h])) = 2
          THEN /\ last.ctrAllocs = {share_count[last.h]}
               /\ last.ctrReads = {}
               /\ counterHeap[share_count[last.h]].val = 2
          ELSE /\ last.ctrAllocs = {}
               /\ last.ctrReads = {share_count[last.h]}
               /\ counterHeap[share_count[last.h]].val = last.count + 1

\* a later clone made after the family had shrunk to a single survivor
CounterCreatedOnceWitness ==
    /\ last.op = "clone"
    /\ last.count = 1
    /\ Cardinality(Members(family[last.h])) >= 3
    /\ Cardinality(CountersOf(family[last.h])) = 1

\* C8: the counter allocation is freed exactly once, by the drop of the last
\* live member: never while a handle pointing to it is live, never twice,
\* and always once the whole family has been dropped.
CounterFreedOnce ==
    \A c \in CounterAddr :
        counterHeap[c].state # "unalloc" =>
            /\ counterHeap[c].frees <= 1
            /\ counterHeap[c].state = "freed"
                  => ~ \E h \in Live : share_count[h] = c
            /\ LiveMembers(counterHeap[c].owner) # {} => counterHeap[c].frees = 0
            /\ LiveMembers(counterHeap[c].owner) = {} => counterHeap[c].frees = 1
            /\ (\E i \in 1..Len(last.freed) : last.freed[i] = <<"counter", c>>)
                  => (last.op = "drop" /\ share_count[last.h] = c)

\* the last of three members has just been dropped and freed the counter
CounterFreedOnceWitness ==
    \E c \in CounterAddr :
        /\ counterHeap[c].frees = 1
        /\ Cardinality(Members(counterHeap[c].owner)) >= 3
        /\ last.op = "drop" /\ share_count[last.h] = c

\* C9: dropping an unshared handle frees data once and reads, writes and
\* frees no counter.
SingleOwnerDrop ==
    [][\A h \in Handle :
          (Drop(h) /\ share_count[h] = NULL)
              => /\ dataHeap' = Free(dataHeap, data[h])
                 /\ dataHeap'[data[h]].frees = 1
                 /\ counterHeap' = counterHeap
                 /\ last'.ctrReads = {} /\ last'.ctrWrites = {}
                 /\ last'.freed = <<<<"data", data[h]>>>>]_vars

\* an unshared handle has been dropped
SingleOwnerDropWitness ==
    /\ last.op = "drop"
    /\ share_count[last.h] = NULL
    /\ dataHeap[data[last.h]].frees = 1

\* C10: dropping a shared handle while the counter reads more than 1 takes
\* exactly 1 off the counter and changes nothing else.
DropDecrementsOnly ==
    [][\A h \in Handle :
          (Drop(h) /\ share_count[h] # NULL /\ counterHeap[share_count[h]].val > 1)
              => /\ counterHeap' = [counterHeap EXCEPT ![share_count[h]].val = @ - 1]
                 /\ dataHeap' = dataHeap
                 /\ data' = data
                 /\ share_count' = share_count
                 /\ status' = [status EXCEPT ![h] = "dropped"]
                 /\ last'.freed = <<>>]_vars

\* a shared handle was dropped while the counter read 3
DropDecrementsOnlyWitness ==
    /\ last.op = "drop"
    /\ last.count = 3
    /\ Cardinality(LiveMembers(family[last.h])) = 2
    /\ counterHeap[share_count[last.h]].val = 2

\* C11: the drop of the last member of a shared family (counter reads 1)
\* frees both allocations in that one drop, the counter first and then data.
LastDropFreesCounterThenData ==
    (last.op = "drop" /\ share_count[last.h] # NULL /\ last.count = 1)
        => /\ last.freed = <<<<"counter", share_count[last.h]>>, <<"data", data[last.h]>>>>
           /\ counterHeap[share_count[last.h]].state = "freed"
           /\ dataHeap[data[last.h]].state = "freed"

\* the last survivor of a family of three has been dropped
LastDropFreesCounterThenDataWitness ==
    /\ last.op = "drop" /\ share_count[last.h] # NULL /\ last.count = 1
    /\ Cardinality(Members(family[last.h])) >= 3
    /\ Len(last.freed) = 2

\* C12: a live handle whose share_count is null is the only live handle
\* that holds its data pointer.
UnsharedIsUnique ==
    \A h \in Live :
        share_count[h] = NULL
            => \A g \in Live : (data[g] = data[h] \/ family[g] = family[h]) => g = h

\* an unshared live handle next to a shared family
UnsharedIsUniqueWitness ==
    \E h, g \in Live :
        /\ share_count[h] = NULL
        /\ share_count[g] # NULL
        /\ Cardinality(LiveMembers(family[g])) >= 2

\* C13: the data pointer of a handle never changes after construction; clone
\* changes only the cloned handle's share_count (first clone) or the counter
\* value (later clones) besides creating the new handle, and never frees or
\* replaces data; a read through deref changes nothing; and no operation on
\* one family changes the data, counter or handles of another family.
OtherFamiliesUntouched(f) ==
    /\ \A d \in DataAddr \ {f} : dataHeap'[d] = dataHeap[d]
    /\ \A c \in CounterAddr :
          (counterHeap[c].state # "unalloc" /\ counterHeap[c].owner # f)
              => counterHeap'[c] = counterHeap[c]
    /\ \A g \in Handle :
          (status[g] # "unused" /\ family[g] # f)
              => /\ status'[g] = status[g]
                 /\ data'[g] = data[g]
                 /\ share_count'[g] = share_count[g]

FrameEffects ==
    [][/\ \A h \in Handle : status[h] # "unused" => data'[h] = data[h]
       /\ \A h \in Handle :
             Clone(h) =>
                /\ dataHeap' = dataHeap
                /\ \A g \in Handle \ {h} :
                      status[g] # "unused" =>
                          (share_count'[g] = share_count[g] /\ status'[g] = status[g])
                /\ status'[h] = status[h]
                /\ IF share_count[h] = NULL
                   THEN \A c \in CounterAddr :
                           counterHeap[c].state # "unalloc"
                               => counterHeap'[c] = counterHeap[c]
                   ELSE /\ share_count'[h] = share_count[h]
                        /\ counterHeap' = [counterHeap EXCEPT ![share_count[h]].val = @ + 1]
       /\ \A h \in Handle :
             Read(h) => UNCHANGED <<status, data, share_count, family,
                                    dataHeap, counterHeap>>
       /\ last'.h \in Handle => OtherFamiliesUntouched(family'[last'.h])]_vars

\* a write through a handle of one shared family while another shared
\* family is live and holds a different value
FrameEffectsWitness ==
    /\ last.op = "write"
    /\ \E g \in Live :
          /\ family[g] # family[last.h]
          /\ share_count[g] # NULL
          /\ share_count[last.h] # NULL
          /\ dataHeap[data[g]].val # last.val

\* C15: a handle never returns from shared to unshared: a non-null
\* share_count keeps pointing to the same counter until the handle is
\* dropped (and drop does not reset it either). When a family has shrunk to
\* one survivor (counter 1) the survivor is still shared, and cloning it
\* raises the existing counter to 2 without allocating another one.
SharedIsPermanent ==
    [][/\ \A h \in Handle :
             (status[h] # "unused" /\ share_count[h] # NULL)
                 => share_count'[h] = share_count[h]
       /\ \A h \in Live :
             (share_count[h] # NULL /\ counterHeap[share_count[h]].val = 1)
                 => /\ LiveMembers(family[h]) = {h}
                    /\ Clone(h) =>
                          /\ counterHeap' = [counterHeap EXCEPT ![share_count[h]].val = 2]
                          /\ last'.ctrAllocs = {}
                          /\ share_count'[last'.new] = share_count[h]]_vars

\* the single survivor of a family of three has been cloned
SharedIsPermanentWitness ==
    /\ last.op = "clone" /\ last.count = 1
    /\ Cardinality(Members(family[last.h])) = 4
    /\ Cardinality(LiveMembers(family[last.h])) = 2
    /\ counterHeap[share_count[last.h]].val = 2
    /\ Cardinality(CountersOf(family[last.h])) = 1

\* C16: an allocated counter always holds at least 1; the freeing branch of
\* drop is reached only with the counter reading exactly 1, and it frees the
\* counter without storing a decremented value in it.
CounterAtLeastOne ==
    /\ \A c \in CounterAddr : counterHeap[c].state = "alloc" => counterHeap[c].val >= 1
    /\ \A c \in CounterAddr : counterHeap[c].state = "freed" => counterHeap[c].val = 1
    /\ (last.op = "drop" /\ share_count[last.h] # NULL /\ last.freed # <<>>)
           => (last.count = 1 /\ last.ctrWrites = {})
    /\ (last.op = "drop" /\ last.ctrWrites # {}) => last.count > 1

\* a family went 2 -> 3 -> 2 -> 1 and then its last member freed the counter
CounterAtLeastOneWitness ==
    /\ last.op = "drop" /\ share_count[last.h] # NULL /\ last.freed # <<>>
    /\ Cardinality(Members(family[last.h])) >= 3
    /\ counterHeap[share_count[last.h]].val = 1

\* C17: run side by side with an eager reference-counted owner, the lazy one
\* frees data at the same step; the eager count equals the lazy counter when
\* the handle has one and is 1 when the handle is unshared.
SameAsEager ==
    /\ \A f \in DataAddr : dataHeap[f].frees = eager[f].frees
    /\ \A h \in Live :
          eager[family[h]].count =
              IF share_count[h] = NULL THEN 1 ELSE counterHeap[share_count[h]].val
    /\ \A f \in FamilyIds : LiveMembers(f) = {} => eager[f].count = 0

\* one family of three was freed by both owners at its last drop while an
\* unshared handle of another family is live
SameAsEagerWitness ==
    \E f \in FamilyIds :
        /\ Cardinality(Members(f)) >= 3
        /\ last.op = "drop" /\ family[last.h] = f
        /\ eager[f].frees = 1 /\ dataHeap[f].frees = 1
        /\ \E h \in Live : share_count[h] = NULL

\* C18: the increment in clone never takes the counter from its largest
\* value to 0, whatever clones are made and leaked.
NoCounterWrap ==
    [][\A c \in CounterAddr :
          ~ (counterHeap[c].val = CounterModulus - 1 /\ counterHeap'[c].val = 0)]_vars

\* what the wrap leads to: a live handle whose data has been freed
UseAfterWrap ==
    \E h \in Live : dataHeap[data[h]].state = "freed"

\* C14: with the read and the write of the counter interleaved between two
\* contexts working on one family, the counter can come to differ from the
\* number of live handles, and data is then freed while a handle is live or
\* freed twice; each of these happens only after a context has acted on a
\* counter value that was stale (a lost update).
CounterOff ==
    \E h \in Live :
        /\ share_count[h] # NULL
        /\ counterHeap[share_count[h]].state = "alloc"
        /\ counterHeap[share_count[h]].val # Cardinality(LiveMembers(family[h]))
PrematureFree == \E h \in Live : dataHeap[data[h]].state = "freed"
DoubleFree == \E d \in DataAddr : dataHeap[d].frees > 1

RaceDamageOnlyAfterLostUpdate ==
    (CounterOff \/ PrematureFree \/ DoubleFree) => lostUpdate

\* data has been freed twice, the second time by a handle that was still
\* live after the first
RaceDamageWitness ==
    /\ lostUpdate
    /\ DoubleFree
    /\ last.op = "drop"

====
